---- MODULE Spec2Model ----
(***************************************************************************)
(* DroughtGuard: the Narrative Cache (app/utils/ai_cache.py, a lock around *)
(* a cachetools.TTLCache) and the narrative endpoints of app/app.py that   *)
(* use it together with the Narrative Generator of app/utils/llm_chain.py. *)
(*                                                                         *)
(* Two specifications share the cache state:                               *)
(*   SpecCache  threads calling SimpleCache.get/set/clear/size directly    *)
(*   Spec       concurrent /api/explain and /api/brief request handlers    *)
(***************************************************************************)
EXTENDS Integers, Sequences, FiniteSets, TLC

(***************************************************************************)
(* Bounds of the model.                                                    *)
(***************************************************************************)
\* threads calling the cache API in SpecCache
NumThreads == 2
\* concurrent request handlers in Spec
NumHandlers == 2
\* requests served in one behaviour of Spec
MaxRequests == 3
\* one-second steps of the clock
MaxSecs == 2
\* TTL-long steps of the clock
MaxDays == 1
\* one-second steps of the clock while requests are served
MaxAppSecs == 1
\* cache calls made in one behaviour of SpecCache
MaxCalls == 3
\* the small maxsize SpecCache constructs a cache with, besides the default
SmallMaxsize == 1

(***************************************************************************)
(* Program constants.                                                      *)
(***************************************************************************)
\* SimpleCache.__init__(ttl_seconds=86400); also the ttl_seconds app.py passes
DEFAULT_TTL == 86400
\* SimpleCache.__init__(maxsize=512)
DEFAULT_MAXSIZE == 512

\* Python's None where an int is expected (ttl_seconds=None)
NoTtl == -1
\* Python's None where a payload dict is expected
NoneVal == [none |-> TRUE]
\* no thread holds the lock
NoThread == 0

Threads == 1..NumThreads

(***************************************************************************)
(* The feature store and the key space.                                    *)
(***************************************************************************)
\* features_df['region']: the regions that have rows
FeatureRegions == {"Nairobi"}
\* region path parameters a client may send
RegionInputs == FeatureRegions \cup {"Atlantis"}
\* get_current_month(): the month of the last feature row, '/' replaced by '-'
MonthStr == "2024-12"
Modes == {"explain", "brief"}
ValidHorizons == {1, 2, 3}
CacheKeys == RegionInputs \X {MonthStr} \X ValidHorizons \X Modes
\* the keys the threads of SpecCache use
SampleKeys == {<<"Nairobi", MonthStr, 1, "explain">>, <<"Nairobi", MonthStr, 1, "brief">>}
\* the payload dicts the threads of SpecCache pass to set
SamplePayloads == {[explanation |-> "text1"], [explanation |-> "text2"]}
\* the ttl_seconds arguments the threads of SpecCache pass to set
SampleTtls == {NoTtl, 1}

VARIABLES
    data,       \* TTLCache: key -> [value, expires] (the items and their links' expiry)
    links,      \* TTLCache.__links: the keys in OrderedDict order
    maxsize,    \* TTLCache.maxsize
    lock,       \* SimpleCache._lock: the thread holding it, or NoThread
    secs,       \* clock: one-second steps taken
    days,       \* clock: TTL-long steps taken
    thr,        \* SpecCache: per thread, the cache call in progress
    calls,      \* SpecCache: cache calls started
    lastAcq,    \* history: per key, the arguments of the set that took the lock last
    setLog,     \* history: per key, ttl and time of the last completed set
    prevOp,     \* history: the last operation completed on the backing map
    ready,      \* gemini_ready()[0]: the narrative subsystem is configured
    req,        \* Spec: per handler, the request in progress and its response
    served,     \* Spec: requests started
    lastStore,  \* history: per key, the data of the last generated 200 response
    catCall,    \* categorize_risk: the arguments of the last call and what it returned
    modelFiles, \* predict.py: what is on disk at each model path when the module loads
    models,     \* predict.py: the module-level dict horizon -> loaded classifier
    nowMonth,   \* the month datetime.now() reports
    predCall,   \* predict_risk: the arguments of the last call and how it ended
    featuresDf, \* app.py: the feature table load_features() returned, rows by region
    apiCall,    \* /api/predict: the last request and its response
    advisor,    \* app.py startup: how the import of llm_chain and its configuration went
    healthCall, \* /api/ai/health: the last response
    factsCall,  \* collect_region_facts: the row of the last call and what it returned
    forecastRun \* generate_forecasts: the inputs of the last run and the rows it emitted

vars == <<data, links, maxsize, lock, secs, days, thr, calls, lastAcq, setLog, prevOp,
          ready, req, served, lastStore,
          catCall, modelFiles, models, nowMonth, predCall, featuresDf, apiCall,
          advisor, healthCall, factsCall, forecastRun>>

cacheVars == <<data, links, maxsize, lock>>
clockVars == <<secs, days>>
histVars == <<lastAcq, setLog, prevOp>>
appVars == <<ready, req, served, lastStore>>
riskVars == <<catCall, modelFiles, models, nowMonth, predCall, featuresDf, apiCall>>
auxVars == <<advisor, healthCall, factsCall, forecastRun>>

\* the timer of the TTLCache (time.monotonic), in seconds
Now == days * DEFAULT_TTL + secs

(***************************************************************************)
(* cachetools.TTLCache, as SimpleCache uses it.                            *)
(***************************************************************************)
Restrict(f, S) == [k \in S |-> f[k]]

Without(seq, S) == SelectSeq(seq, LAMBDA k : k \notin S)

\* TTLCache.expire(time): drop every item whose link has expired
ExpiredKeys(d, now) == {k \in DOMAIN d : ~(now < d[k].expires)}

Expire(d, l, now) ==
    [data |-> Restrict(d, DOMAIN d \ ExpiredKeys(d, now)),
     links |-> Without(l, ExpiredKeys(d, now))]

\* Cache.get(key): `key in self` (False for an expired link), then self[key],
\* whose __getlink moves the key to the end of __links. Nothing is removed.
TTLCacheGet(d, l, k, now) ==
    IF k \in DOMAIN d /\ now < d[k].expires
    THEN [ret |-> d[k].value, links |-> Append(Without(l, {k}), k)]
    ELSE [ret |-> NoneVal, links |-> l]

\* __setitem__ that never pops an entry to make room
TTLCacheSetitem_no_evict(d, l, k, v, now, ttl, msize) ==
    LET e == Expire(d, l, now)
    IN  [data |-> [x \in DOMAIN e.data \cup {k} |->
                      IF x = k THEN [value |-> v, expires |-> now + ttl] ELSE e.data[x]],
         links |-> Append(Without(e.links, {k}), k)]

\* __setitem__ with the link's expiry set to the time of the write
TTLCacheSetitem_no_ttl(d, l, k, v, now, ttl, msize) ==
    LET e == Expire(d, l, now)
    IN  [data |-> [x \in DOMAIN e.data \cup {k} |->
                      IF x = k THEN [value |-> v, expires |-> now] ELSE e.data[x]],
         links |-> Append(Without(e.links, {k}), k)]

\* TTLCache.__setitem__: expire(time); Cache.__setitem__ pops the first key of
\* __links while a new key does not fit; the link is (re)appended with
\* expires = time + ttl.
TTLCacheSetitem(d, l, k, v, now, ttl, msize) ==
    LET e == Expire(d, l, now)
        full == k \notin DOMAIN e.data /\ Cardinality(DOMAIN e.data) + 1 > msize
        victim == IF full THEN {Head(e.links)} ELSE {}
        d1 == Restrict(e.data, DOMAIN e.data \ victim)
        l1 == Without(e.links, victim)
    IN  [data |-> [x \in DOMAIN d1 \cup {k} |->
                      IF x = k THEN [value |-> v, expires |-> now + ttl] ELSE d1[x]],
         links |-> Append(Without(l1, {k}), k)]

\* TTLCache.__len__: expire(time) and count
TTLCacheLen(d, l, now) ==
    LET e == Expire(d, l, now)
    IN  [ret |-> Cardinality(DOMAIN e.data), data |-> e.data, links |-> e.links]

(***************************************************************************)
(* SimpleCache (ai_cache.py).                                              *)
(***************************************************************************)
\* value['_ttl'] = ttl_seconds, in place, when ttl_seconds is not None
SetValue(v, ttl) ==
    IF ttl # NoTtl
    THEN [f \in DOMAIN v \cup {"_ttl"} |-> IF f = "_ttl" THEN ttl ELSE v[f]]
    ELSE v

\* SimpleCache.set storing a copy of the payload taken before the '_ttl' mutation
SimpleCacheSet_copy(d, l, k, v, ttl, now, msize) ==
    TTLCacheSetitem(d, l, k, v, now, DEFAULT_TTL, msize)

\* SimpleCache.set under the lock: the mutation of value, then self._cache[key] = value
SimpleCacheSet(d, l, k, v, ttl, now, msize) ==
    TTLCacheSetitem(d, l, k, SetValue(v, ttl), now, DEFAULT_TTL, msize)

\* SimpleCache.get under the lock
SimpleCacheGet(d, l, k, now) == TTLCacheGet(d, l, k, now)

\* a lock that excludes nobody
LockFree_never_blocks(t) == TRUE

\* `with self._lock:` can be entered
LockFree(t) == lock = NoThread

IdleThread ==
    [pc |-> "idle", op |-> "none", key |-> <<>>, val |-> NoneVal, ttl |-> NoTtl,
     ret |-> NoneVal, n |-> 0, at |-> 0, prev |-> [op |-> "none"]]

NoOp == [op |-> "none"]

\* a thread enters get/set/clear: `with self._lock`
Acquire(t, op, k, v, ttl) ==
    /\ thr[t].pc = "idle"
    /\ calls < MaxCalls
    /\ LockFree(t)
    /\ calls' = calls + 1
    /\ lock' = t
    /\ thr' = [thr EXCEPT ![t] = [IdleThread EXCEPT !.pc = "locked", !.op = op,
                                     !.key = k, !.val = v, !.ttl = ttl]]
    /\ lastAcq' = IF op = "set"
                  THEN [lastAcq EXCEPT ![k] = [val |-> v, ttl |-> ttl]]
                  ELSE lastAcq
    /\ UNCHANGED <<data, links, maxsize, clockVars, setLog, prevOp, appVars, riskVars, auxVars>>

\* the body of get
GetBody(t) ==
    /\ thr[t].pc = "locked" /\ thr[t].op = "get"
    /\ LET g == SimpleCacheGet(data, links, thr[t].key, Now)
       IN  /\ links' = g.links
           /\ thr' = [thr EXCEPT ![t].pc = "ret", ![t].ret = g.ret, ![t].at = Now,
                                 ![t].prev = prevOp]
    /\ prevOp' = [op |-> "get", key |-> thr[t].key, at |-> Now]
    /\ UNCHANGED <<data, maxsize, lock, clockVars, lastAcq, setLog, calls, appVars, riskVars, auxVars>>

\* the body of set
SetBody(t) ==
    /\ thr[t].pc = "locked" /\ thr[t].op = "set"
    /\ LET s == SimpleCacheSet(data, links, thr[t].key, thr[t].val, thr[t].ttl, Now, maxsize)
           v == SetValue(thr[t].val, thr[t].ttl)
       IN  /\ data' = s.data
           /\ links' = s.links
           /\ thr' = [thr EXCEPT ![t].pc = "ret", ![t].val = v, ![t].at = Now,
                                 ![t].prev = prevOp]
           /\ prevOp' = [op |-> "set", key |-> thr[t].key, at |-> Now, val |-> v]
    /\ setLog' = [setLog EXCEPT ![thr[t].key] = [ttl |-> thr[t].ttl, at |-> Now]]
    /\ UNCHANGED <<maxsize, lock, clockVars, lastAcq, calls, appVars, riskVars, auxVars>>

\* the body of clear
ClearBody(t) ==
    /\ thr[t].pc = "locked" /\ thr[t].op = "clear"
    /\ data' = <<>>
    /\ links' = <<>>
    /\ thr' = [thr EXCEPT ![t].pc = "ret", ![t].at = Now, ![t].prev = prevOp]
    /\ prevOp' = [op |-> "clear", at |-> Now]
    /\ UNCHANGED <<maxsize, lock, clockVars, lastAcq, setLog, calls, appVars, riskVars, auxVars>>

\* leaving the `with` block and returning
Release(t) ==
    /\ thr[t].pc = "ret" /\ thr[t].op \in {"get", "set", "clear"}
    /\ lock' = NoThread
    /\ thr' = [thr EXCEPT ![t] = IdleThread]
    /\ UNCHANGED <<data, links, maxsize, clockVars, histVars, calls, appVars, riskVars, auxVars>>

\* size(): len(self._cache), entered without the lock
SizeEnter(t) ==
    /\ thr[t].pc = "idle"
    /\ calls < MaxCalls
    /\ calls' = calls + 1
    /\ thr' = [thr EXCEPT ![t] = [IdleThread EXCEPT !.pc = "unlocked", !.op = "size"]]
    /\ UNCHANGED <<cacheVars, clockVars, histVars, appVars, riskVars, auxVars>>

SizeBody(t) ==
    /\ thr[t].pc = "unlocked" /\ thr[t].op = "size"
    /\ LET s == TTLCacheLen(data, links, Now)
       IN  /\ data' = s.data
           /\ links' = s.links
           /\ thr' = [thr EXCEPT ![t].pc = "ret", ![t].n = s.ret, ![t].at = Now,
                                 ![t].prev = prevOp]
    /\ prevOp' = [op |-> "size", at |-> Now]
    /\ UNCHANGED <<maxsize, lock, clockVars, lastAcq, setLog, calls, appVars, riskVars, auxVars>>

SizeReturn(t) ==
    /\ thr[t].pc = "ret" /\ thr[t].op = "size"
    /\ thr' = [thr EXCEPT ![t] = IdleThread]
    /\ UNCHANGED <<cacheVars, clockVars, histVars, calls, appVars, riskVars, auxVars>>

\* time passes
Tick(d) ==
    /\ IF d = 1
       THEN secs < MaxSecs /\ secs' = secs + 1 /\ days' = days
       ELSE days < MaxDays /\ days' = days + 1 /\ secs' = secs
    /\ UNCHANGED <<cacheVars, thr, histVars, calls, appVars, riskVars, auxVars>>

(***************************************************************************)
(* The Narrative Generator (llm_chain.py).                                 *)
(***************************************************************************)
\* what model.generate_content does on one call
LlmOutcomes == {"ok", "raises", "empty", "malformed"}
\* the explanation texts of well-formed answers
LlmTexts == {"text1", "text2"}

\* the fallback dict of the `if not text` branch
WithheldPayload ==
    [explanation |-> "AI response was withheld by safety filters or returned empty.",
     disclaimers |-> "Gemini output unavailable. Proceed with model predictions only."]

\* the fallback dict of the `except Exception` branch
ErrorPayload ==
    [explanation |-> "Gemini error", disclaimers |-> "Fallback text used due to LLM error."]

\* _call_gemini_json: raises only when gemini_ready() fails; every failure of the
\* call or of the parsing is caught by its own `except Exception` and answered
\* with the fallback dict
CallGeminiJson(isReady, outcome, text) ==
    IF ~isReady THEN [raised |-> TRUE, value |-> NoneVal]
    ELSE IF outcome = "ok"
         THEN [raised |-> FALSE,
               value |-> [explanation |-> text, disclaimers |-> "uncertainty note"]]
    ELSE IF outcome = "empty" THEN [raised |-> FALSE, value |-> WithheldPayload]
    ELSE [raised |-> FALSE, value |-> ErrorPayload]

\* get_explanation / get_brief: build the prompt and call _call_gemini_json
GetNarrative(mode, isReady, outcome, text) == CallGeminiJson(isReady, outcome, text)

(***************************************************************************)
(* The narrative endpoints (app.py).                                       *)
(***************************************************************************)
Handlers == 1..NumHandlers

\* the query parameter h is absent
NoParam == "<absent>"
\* the h parameters clients send: absent (horizon 1), out of range, not a number
HParams == {NoParam, "4", "abc"}
\* the strings int() accepts, among those sent
IntStrings == {"-1", "0", "1", "2", "3", "4"}

\* request.args.get('h', '1')
ArgH(hparam) == IF hparam = NoParam THEN "1" ELSE hparam

\* int(s) for the strings it accepts (it raises ValueError for the others)
IntOf(s) ==
    CASE s = "-1" -> -1
      [] s = "0" -> 0
      [] s = "1" -> 1
      [] s = "2" -> 2
      [] s = "3" -> 3
      [] s = "4" -> 4

\* the cache is consulted whatever force says
ConsultCache_always(force) == TRUE

\* `if not force:` the cache is consulted
ConsultCache(force) == ~force

Truthy_never(v) == FALSE

\* `if cached:` the truth value of what ai_cache.get returned
Truthy(v) == v # NoneVal /\ DOMAIN v # {}

\* collect_region_facts raises ValueError for a region without rows; for a
\* region with rows, predict_risk and categorize_risk on its latest row return
FactsRaise(region) == region \notin FeatureRegions

IdleRequest ==
    [pc |-> "idle", mode |-> "none", region |-> "none", hparam |-> NoParam,
     force |-> FALSE, key |-> <<>>, llm |-> "none", result |-> NoneVal,
     status |-> 0, cached |-> FALSE, body |-> NoneVal,
     readCache |-> FALSE, genCalled |-> FALSE, wrote |-> FALSE,
     expect |-> NoneVal, replaced |-> NoneVal]

\* the response of a handler
Respond(r, status, cached, body) ==
    [r EXCEPT !.pc = "done", !.status = status, !.cached = cached, !.body = body]

\* explain_region / brief_region up to the cache lookup; the request is given
\* to the first free worker
BeginRequest(h, mode, region, hparam, force) ==
    /\ req[h].pc \in {"idle", "done"}
    /\ \A g \in 1..(h - 1) : req[g].pc \notin {"idle", "done"}
    /\ served < MaxRequests
    /\ served' = served + 1
    /\ lock = NoThread
    /\ LET r0 == [IdleRequest EXCEPT !.mode = mode, !.region = region,
                                     !.hparam = hparam, !.force = force]
       IN  IF ~ready
           THEN /\ req' = [req EXCEPT ![h] = Respond(r0, 503, FALSE, NoneVal)]
                /\ links' = links
           ELSE IF ArgH(hparam) \notin IntStrings
           THEN \* int() raises inside the try: the except branch answers
                /\ req' = [req EXCEPT ![h] = Respond(r0, 502, FALSE, NoneVal)]
                /\ links' = links
           ELSE IF IntOf(ArgH(hparam)) \notin ValidHorizons
           THEN /\ req' = [req EXCEPT ![h] = Respond(r0, 400, FALSE, NoneVal)]
                /\ links' = links
           ELSE LET k == <<region, MonthStr, IntOf(ArgH(hparam)), mode>>
                    r1 == [r0 EXCEPT !.key = k,
                              !.expect =
                                  IF /\ ~force
                                     /\ lastStore[k] # NoneVal
                                     /\ Now < lastStore[k].at + DEFAULT_TTL
                                  THEN lastStore[k].body ELSE NoneVal]
                IN  IF ConsultCache(force)
                    THEN LET g == SimpleCacheGet(data, links, k, Now)
                             r2 == [r1 EXCEPT !.readCache = TRUE]
                         IN  /\ links' = g.links
                             /\ req' = [req EXCEPT ![h] =
                                   IF Truthy(g.ret)
                                   THEN Respond(r2, 200, TRUE, g.ret)
                                   ELSE [r2 EXCEPT !.pc = "generating"]]
                    ELSE /\ links' = links
                         /\ req' = [req EXCEPT ![h] = [r1 EXCEPT !.pc = "generating"]]
    /\ UNCHANGED <<data, maxsize, lock, clockVars, thr, calls, histVars, ready, lastStore, riskVars, auxVars>>

\* collect_region_facts, then get_explanation / get_brief
Generate(h, outcome, text) ==
    /\ req[h].pc = "generating"
    /\ IF FactsRaise(req[h].region)
       THEN req' = [req EXCEPT ![h] = Respond(req[h], 502, FALSE, NoneVal)]
       ELSE LET g == GetNarrative(req[h].mode, ready, outcome, text)
                r1 == [req[h] EXCEPT !.genCalled = TRUE, !.llm = outcome]
            IN  req' = [req EXCEPT ![h] =
                    IF g.raised
                    THEN Respond(r1, 502, FALSE, NoneVal)
                    ELSE [r1 EXCEPT !.pc = "storing", !.result = g.value]]
    /\ UNCHANGED <<cacheVars, clockVars, thr, calls, histVars, ready, served, lastStore, riskVars, auxVars>>

\* ai_cache.set(cache_key, result, ttl_seconds=86400), then the 200 response
Store(h) ==
    /\ req[h].pc = "storing"
    /\ lock = NoThread
    /\ LET k == req[h].key
           s == SimpleCacheSet(data, links, k, req[h].result, DEFAULT_TTL, Now, maxsize)
           \* set changed the dict `result` refers to in place
           result == SetValue(req[h].result, DEFAULT_TTL)
           r1 == [req[h] EXCEPT !.result = result, !.wrote = TRUE,
                     !.replaced = IF k \in DOMAIN data THEN data[k].value ELSE NoneVal]
       IN  /\ data' = s.data
           /\ links' = s.links
           /\ req' = [req EXCEPT ![h] = Respond(r1, 200, FALSE, result)]
           /\ lastStore' = [lastStore EXCEPT ![k] =
                               [body |-> result, at |-> Now, llm |-> req[h].llm]]
    /\ UNCHANGED <<maxsize, lock, clockVars, thr, calls, histVars, ready, served, riskVars, auxVars>>

\* no health request, facts collection or forecast run has been made
InitAuxIdle ==
    /\ advisor = NoneVal
    /\ healthCall = NoneVal
    /\ factsCall = NoneVal
    /\ forecastRun = NoneVal

\* no call of the categorizer, the predictor or /api/predict has been made
InitRiskIdle ==
    /\ catCall = NoneVal
    /\ modelFiles = <<>>
    /\ models = <<>>
    /\ nowMonth = 1
    /\ predCall = NoneVal
    /\ featuresDf = <<>>
    /\ apiCall = NoneVal

InitCommon ==
    /\ data = <<>>
    /\ links = <<>>
    /\ lock = NoThread
    /\ secs = 0
    /\ days = 0
    /\ thr = [t \in Threads |-> IdleThread]
    /\ calls = 0
    /\ lastAcq = [k \in CacheKeys |-> NoneVal]
    /\ setLog = [k \in CacheKeys |-> NoneVal]
    /\ prevOp = NoOp
    /\ req = [h \in Handlers |-> IdleRequest]
    /\ served = 0
    /\ lastStore = [k \in CacheKeys |-> NoneVal]

\* SimpleCache(maxsize=m) for a small m or the default
InitCache ==
    /\ InitCommon
    /\ InitAuxIdle
    /\ InitRiskIdle
    /\ ready = TRUE
    /\ maxsize \in {SmallMaxsize, DEFAULT_MAXSIZE}

NextCache ==
    \/ \E t \in Threads, k \in SampleKeys :
          \/ Acquire(t, "get", k, NoneVal, NoTtl)
          \/ \E v \in SamplePayloads, ttl \in SampleTtls : Acquire(t, "set", k, v, ttl)
    \/ \E t \in Threads : Acquire(t, "clear", <<>>, NoneVal, NoTtl)
    \/ \E t \in Threads : GetBody(t)
    \/ \E t \in Threads : SetBody(t)
    \/ \E t \in Threads : ClearBody(t)
    \/ \E t \in Threads : Release(t)
    \/ \E t \in Threads : SizeEnter(t)
    \/ \E t \in Threads : SizeBody(t)
    \/ \E t \in Threads : SizeReturn(t)
    \/ \E d \in {1, DEFAULT_TTL} : Tick(d)

SpecCache == InitCache /\ [][NextCache]_vars

\* the application: ai_cache = SimpleCache(), readiness fixed at startup
Init ==
    /\ InitCommon
    /\ InitAuxIdle
    /\ InitRiskIdle
    /\ ready \in BOOLEAN
    /\ maxsize = DEFAULT_MAXSIZE

Next ==
    \/ \E h \in Handlers, mode \in Modes, region \in RegionInputs,
          hparam \in HParams, force \in BOOLEAN :
          BeginRequest(h, mode, region, hparam, force)
    \/ \E h \in Handlers, outcome \in LlmOutcomes, text \in LlmTexts :
          Generate(h, outcome, text)
    \/ \E h \in Handlers : Store(h)
    \/ \E d \in {1, DEFAULT_TTL} : Tick(d) /\ secs' <= MaxAppSecs

Spec == Init /\ [][Next]_vars

(***************************************************************************)
(* Properties of SimpleCache, checked under SpecCache.                     *)
(***************************************************************************)
\* a thread has run the body of get and still holds the lock
GetReturned(t) == thr[t].pc = "ret" /\ thr[t].op = "get"

\* the last completed set of the key of t's get passed ttl_seconds > 0, and the
\* entry it wrote is older than that at the time of the get
OlderThanItsTtl(t) ==
    LET e == setLog[thr[t].key]
    IN  /\ e # NoneVal
        /\ e.ttl > 0
        /\ thr[t].at - e.at > e.ttl

\* C1: a get issued once the age of an entry written by set(k, v, ttl_seconds=t),
\* t > 0, exceeds t returns absent, and the cache no longer holds the entry.
Cex_C1 ==
    \A t \in Threads :
        (GetReturned(t) /\ OlderThanItsTtl(t)) =>
            (thr[t].ret = NoneVal /\ thr[t].key \notin DOMAIN data)

\* t's get directly follows a set of the same key, with no time in between
GetRightAfterSet(t) ==
    /\ GetReturned(t)
    /\ thr[t].prev.op = "set"
    /\ thr[t].prev.key = thr[t].key
    /\ thr[t].prev.at = thr[t].at

\* C5: set(k, v) immediately followed by get(k) returns a payload equal to v
\* (v as the caller holds it after the call: set writes '_ttl' into that dict).
Thm_C5 ==
    \A t \in Threads : GetRightAfterSet(t) => thr[t].ret = thr[t].prev.val

Wit_C5 ==
    \E t \in Threads :
        /\ GetRightAfterSet(t)
        /\ thr[t].ret # NoneVal
        /\ "_ttl" \in DOMAIN thr[t].ret

\* the payload the set that took the lock last for k must have left
IsPayloadOfLastAcquirer(k, v) ==
    LET a == lastAcq[k]
    IN  /\ a # NoneVal
        /\ v.explanation = a.val.explanation
        /\ IF a.ttl = NoTtl
           THEN DOMAIN v = DOMAIN a.val
           ELSE DOMAIN v = DOMAIN a.val \cup {"_ttl"} /\ v["_ttl"] = a.ttl

\* a set of key k has the lock and has not yet written
SetPending(k) ==
    \E t \in Threads : thr[t].pc = "locked" /\ thr[t].op = "set" /\ thr[t].key = k

\* C6: last write wins: whenever no set of k is in progress, the entry held for
\* k is exactly the payload of the set that acquired the lock last, and that is
\* what a get of k returns.
Thm_C6 ==
    /\ \A k \in DOMAIN data :
          ~SetPending(k) => IsPayloadOfLastAcquirer(k, data[k].value)
    /\ \A t \in Threads :
          (GetReturned(t) /\ thr[t].ret # NoneVal) =>
              IsPayloadOfLastAcquirer(thr[t].key, thr[t].ret)

\* a set has just overwritten the entry another set wrote for the same key
Wit_C6 ==
    \E t \in Threads :
        /\ thr[t].pc = "ret" /\ thr[t].op = "set"
        /\ thr[t].prev.op = "set"
        /\ thr[t].prev.key = thr[t].key
        /\ thr[t].prev.val.explanation # thr[t].val.explanation
        /\ data[thr[t].key].value = thr[t].val

\* thread t is between entering a cache method and the end of its access to
\* the backing map
InBackingMap(t) == thr[t].pc \in {"locked", "unlocked"}

\* the methods that take the lock exclude each other
LockedMethodsExclusive ==
    \A t, u \in Threads :
        (thr[t].pc \in {"locked", "ret"} /\ thr[t].op # "size"
            /\ thr[u].pc \in {"locked", "ret"} /\ thr[u].op # "size") => t = u

\* C8: mutual exclusion on the cache: the backing map is only ever accessed
\* under the lock, so no two threads are inside it at the same time.
Cex_C8 ==
    \A t, u \in Threads : (InBackingMap(t) /\ InBackingMap(u)) => t = u

(***************************************************************************)
(* Properties of the narrative endpoints, checked under Spec.              *)
(***************************************************************************)
Done(h) == req[h].pc = "done"

\* the h parameter of the request names one of the horizons 1, 2, 3
ValidH(h) ==
    /\ ArgH(req[h].hparam) \in IntStrings
    /\ IntOf(ArgH(req[h].hparam)) \in ValidHorizons

\* C2: every entry the cache holds was produced by a successful generator call.
Cex_C2 ==
    \A k \in DOMAIN data :
        /\ lastStore[k] # NoneVal
        /\ lastStore[k].llm = "ok"
        /\ data[k].value.explanation \in LlmTexts

\* C3: with the subsystem ready and a valid horizon, a request whose generator
\* call failed (the call raised or its output was malformed) is answered 502.
Cex_C3 ==
    \A h \in Handlers :
        (Done(h) /\ ready /\ ValidH(h) /\ req[h].genCalled
                 /\ req[h].llm \in {"raises", "malformed"}) =>
            req[h].status = 502

\* C4: a request without force for a key whose last generated response is
\* younger than the TTL is answered from the cache: cached = true, the data of
\* that response, and no generator call.
Thm_C4 ==
    \A h \in Handlers :
        req[h].expect # NoneVal =>
            /\ Done(h)
            /\ req[h].status = 200
            /\ req[h].cached
            /\ req[h].body = req[h].expect
            /\ ~req[h].genCalled

Wit_C4 ==
    \E h \in Handlers :
        /\ Done(h)
        /\ req[h].expect # NoneVal
        /\ req[h].cached
        /\ lastStore[req[h].key].at < Now

\* C7: a request with force never reads the cache and is never answered
\* cached = true; answered 200, it has called the generator, and the entry of
\* its key is then exactly the payload of the last generated response, which
\* is all a later cached response carries.
Thm_C7 ==
    /\ \A h \in Handlers :
          req[h].force =>
              /\ ~req[h].readCache
              /\ ~req[h].cached
              /\ (Done(h) /\ req[h].status = 200) => (req[h].genCalled /\ req[h].wrote)
    /\ \A h \in Handlers :
          (Done(h) /\ req[h].cached) => (req[h].readCache /\ req[h].body = req[h].expect)
    /\ \A k \in DOMAIN data :
          /\ lastStore[k] # NoneVal
          /\ data[k].value = lastStore[k].body
          /\ data[k].expires = lastStore[k].at + DEFAULT_TTL

\* a forced request has replaced a live entry holding another payload
Wit_C7 ==
    \E h \in Handlers :
        /\ Done(h)
        /\ req[h].force
        /\ req[h].status = 200
        /\ req[h].replaced # NoneVal
        /\ req[h].replaced # req[h].body
        /\ data[req[h].key].value = req[h].body

\* C9: with the subsystem ready, a request whose h is not one of 1, 2, 3 is
\* answered 400 and touches neither the cache nor the generator.
Cex_C9 ==
    \A h \in Handlers :
        (Done(h) /\ ready /\ ~ValidH(h)) =>
            /\ req[h].status = 400
            /\ ~req[h].readCache
            /\ ~req[h].wrote
            /\ ~req[h].genCalled

\* C10: a narrative request for a region without rows in the feature store is
\* answered with a 4xx status.
Cex_C10 ==
    \A h \in Handlers :
        (Done(h) /\ ready /\ ValidH(h) /\ req[h].region \notin FeatureRegions) =>
            req[h].status \in 400..499

\* ---------------------------------------------------------------------------
\* categorizer.py: probabilities are integers in thousandths (0.60 is 600)
\* ---------------------------------------------------------------------------
ProbScale == 1000
MaxExcess == 20
MaxHorizonArg == 4

ProbInputs == (0 - MaxExcess)..(ProbScale + MaxExcess)
HorizonArgs == 0..MaxHorizonArg
RaiseSteps == {1, 50, 400}

get_default_thresholds ==
    [h1 |-> [red |-> 600, yellow |-> 350],
     h2 |-> [red |-> 570, yellow |-> 330],
     h3 |-> [red |-> 550, yellow |-> 300]]

\* the thresholds argument: None, a full custom table, one whose red lies below
\* its yellow, one with a pair that lacks "yellow", and an empty one
ThresholdInputs ==
    { NoneVal,
      [h1 |-> [red |-> 700, yellow |-> 400], h2 |-> [red |-> 500, yellow |-> 200]],
      [h1 |-> [red |-> 300, yellow |-> 500]],
      [h1 |-> [red |-> 800]],
      [k \in {} |-> NoneVal] }

\* f'h{horizon}'
HKey(horizon) ==
    IF horizon = 0 THEN "h0"
    ELSE <<"h1", "h2", "h3", "h4", "h5", "h6">>[horizon]

CategoryOf(label, color, level, threshold, horizon) ==
    [label |-> label, color |-> color, level |-> level,
     threshold_used |-> threshold, horizon |-> horizon]

\* categorize_risk with the red comparison made strict
CategorizeRisk_strict_red(probability, horizon, thresholds) ==
    LET table == IF thresholds = NoneVal THEN get_default_thresholds ELSE thresholds
        key == IF HKey(horizon) \in DOMAIN table THEN HKey(horizon) ELSE "h1"
        pair == IF key \in DOMAIN table THEN table[key] ELSE [red |-> 600, yellow |-> 350]
        red == IF "red" \in DOMAIN pair THEN pair.red ELSE 600
        yellow == IF "yellow" \in DOMAIN pair THEN pair.yellow ELSE 350
    IN  IF probability > red THEN CategoryOf("High", "#dc3545", 3, red, horizon)
        ELSE IF probability >= yellow THEN CategoryOf("Moderate", "#ffc107", 2, yellow, horizon)
        ELSE CategoryOf("Low", "#28a745", 1, yellow, horizon)

\* categorize_risk with the red comparison turned around
CategorizeRisk_reversed_red(probability, horizon, thresholds) ==
    LET table == IF thresholds = NoneVal THEN get_default_thresholds ELSE thresholds
        key == IF HKey(horizon) \in DOMAIN table THEN HKey(horizon) ELSE "h1"
        pair == IF key \in DOMAIN table THEN table[key] ELSE [red |-> 600, yellow |-> 350]
        red == IF "red" \in DOMAIN pair THEN pair.red ELSE 600
        yellow == IF "yellow" \in DOMAIN pair THEN pair.yellow ELSE 350
    IN  IF probability <= red THEN CategoryOf("High", "#dc3545", 3, red, horizon)
        ELSE IF probability >= yellow THEN CategoryOf("Moderate", "#ffc107", 2, yellow, horizon)
        ELSE CategoryOf("Low", "#28a745", 1, yellow, horizon)

\* categorize_risk(probability, horizon, thresholds): no statement of it raises
CategorizeRisk(probability, horizon, thresholds) ==
    LET table == IF thresholds = NoneVal THEN get_default_thresholds ELSE thresholds
        key == IF HKey(horizon) \in DOMAIN table THEN HKey(horizon) ELSE "h1"
        pair == IF key \in DOMAIN table THEN table[key] ELSE [red |-> 600, yellow |-> 350]
        red == IF "red" \in DOMAIN pair THEN pair.red ELSE 600
        yellow == IF "yellow" \in DOMAIN pair THEN pair.yellow ELSE 350
    IN  IF probability >= red THEN CategoryOf("High", "#dc3545", 3, red, horizon)
        ELSE IF probability >= yellow THEN CategoryOf("Moderate", "#ffc107", 2, yellow, horizon)
        ELSE CategoryOf("Low", "#28a745", 1, yellow, horizon)

\* a caller holding its arguments, then the call, then a second call with a
\* larger probability and the same horizon and thresholds
Categorize ==
    /\ catCall # NoneVal
    /\ catCall.out = NoneVal
    /\ catCall' = [catCall EXCEPT
                     !.out = CategorizeRisk(catCall.p, catCall.horizon, catCall.thresholds)]
    /\ UNCHANGED <<cacheVars, clockVars, thr, calls, histVars, appVars,
                   modelFiles, models, nowMonth, predCall, featuresDf, apiCall, auxVars>>

CategorizeHigher(d) ==
    /\ catCall # NoneVal
    /\ catCall.out # NoneVal
    /\ catCall.p + d \in ProbInputs
    /\ catCall' = [catCall EXCEPT
                     !.p = catCall.p + d,
                     !.prev = [p |-> catCall.p, out |-> catCall.out],
                     !.out = CategorizeRisk(catCall.p + d, catCall.horizon,
                                            catCall.thresholds)]
    /\ UNCHANGED <<cacheVars, clockVars, thr, calls, histVars, appVars,
                   modelFiles, models, nowMonth, predCall, featuresDf, apiCall, auxVars>>

InitCat ==
    /\ InitCommon
    /\ InitAuxIdle
    /\ ready = TRUE
    /\ maxsize = DEFAULT_MAXSIZE
    /\ \E p \in ProbInputs, h \in HorizonArgs, th \in ThresholdInputs :
          catCall = [p |-> p, horizon |-> h, thresholds |-> th,
                     out |-> NoneVal, prev |-> NoneVal]
    /\ modelFiles = <<>>
    /\ models = <<>>
    /\ nowMonth = 1
    /\ predCall = NoneVal
    /\ featuresDf = <<>>
    /\ apiCall = NoneVal

NextCat ==
    \/ Categorize
    \/ \E d \in RaiseSteps : CategorizeHigher(d)

SpecCat == InitCat /\ [][NextCat]_vars

CatReturned == catCall # NoneVal /\ catCall.out # NoneVal

InUnitRange(p) == 0 <= p /\ p <= ProbScale

\* C11: categorize_risk fails with a range error, returning no category, for
\* every probability below 0 or above 1 (and returns one for every
\* probability inside [0, 1])
Cex_C11 ==
    CatReturned =>
        (catCall.out.label \in {"Low", "Moderate", "High"} <=> InUnitRange(catCall.p))

\* the (red, yellow) pair of the horizon; the horizon-1 pair when the horizon
\* is not configured
PairFor(horizon, table) ==
    IF HKey(horizon) \in DOMAIN table THEN table[HKey(horizon)] ELSE table["h1"]

CompleteTable(table) ==
    /\ "h1" \in DOMAIN table
    /\ \A k \in DOMAIN table : {"red", "yellow"} \subseteq DOMAIN table[k]

DecisionRuleHolds(table) ==
    LET pair == PairFor(catCall.horizon, table)
        p == catCall.p
        out == catCall.out
    IN  /\ p >= pair.red => out.label = "High" /\ out.level = 3
        /\ (p < pair.red /\ p >= pair.yellow) => out.label = "Moderate" /\ out.level = 2
        /\ (p < pair.red /\ p < pair.yellow) => out.label = "Low" /\ out.level = 1

\* C12: with the horizon's (red, yellow) pair, the horizon-1 pair for an
\* unconfigured horizon, p >= red gives High/level 3, otherwise p >= yellow
\* gives Moderate/level 2, otherwise Low/level 1; a probability equal to a
\* threshold gets the higher tier, and at horizon 1 with the default
\* thresholds 0.60 is High and 0.2, 0.5, 0.8 are Low, Moderate, High
Thm_C12 ==
    CatReturned =>
        LET table == IF catCall.thresholds = NoneVal THEN get_default_thresholds
                     ELSE catCall.thresholds
        IN  /\ CompleteTable(table) => DecisionRuleHolds(table)
            /\ (catCall.thresholds = NoneVal /\ catCall.horizon = 1) =>
                  /\ catCall.p = 600 => catCall.out.label = "High"
                  /\ catCall.p = 200 => catCall.out.label = "Low"
                  /\ catCall.p = 500 => catCall.out.label = "Moderate"
                  /\ catCall.p = 800 => catCall.out.label = "High"

\* a probability exactly on the red threshold of an unconfigured horizon
Wit_C12 ==
    /\ CatReturned
    /\ catCall.thresholds = NoneVal
    /\ catCall.horizon = 4
    /\ catCall.p = 600
    /\ catCall.out.level = 3

\* C13: for a fixed horizon and threshold configuration the level never
\* decreases when the probability grows
Thm_C13 ==
    (CatReturned /\ catCall.prev # NoneVal) =>
        (catCall.prev.p <= catCall.p => catCall.prev.out.level <= catCall.out.level)

\* the second call crossed from Low into High in a table whose red lies below yellow
Wit_C13 ==
    /\ CatReturned
    /\ catCall.prev # NoneVal
    /\ catCall.thresholds # NoneVal
    /\ "h1" \in DOMAIN catCall.thresholds
    /\ "yellow" \in DOMAIN catCall.thresholds["h1"]
    /\ catCall.thresholds["h1"].red < catCall.thresholds["h1"].yellow
    /\ catCall.prev.out.level < catCall.out.level

\* ---------------------------------------------------------------------------
\* predict.py and feature_validator.py: feature values are in hundredths
\* ---------------------------------------------------------------------------
MaxNowMonth == 2
CallCap == 3
NoHorizon == 0

HorizonList == <<1, 2, 3>>
HorizonInputs == {NoHorizon, 1, 2, 3}

\* a number, a string that float() parses, a string it does not parse, and
\* a "YYYY/MM" string of month v
Num(v) == [k |-> "num", v |-> v]
Str(v) == [k |-> "str", v |-> v]
Text == [k |-> "text", v |-> 0]
MonthStrOf(m) == [k |-> "month", v |-> m]

NUMERIC_FEATURES ==
    {"ndvi_anomaly", "rainfall_anomaly", "food_price_inflation", "temp_anomaly",
     "ndvi_anomaly_lag1", "rainfall_anomaly_lag1", "food_price_inflation_lag1",
     "temp_anomaly_lag1", "ndvi_anomaly_lag2", "rainfall_anomaly_lag2",
     "food_price_inflation_lag2", "temp_anomaly_lag2"}

REQUIRED_FEATURES == NUMERIC_FEATURES \cup {"month"}

\* '_anomaly' in feature
AnomalyFeatures ==
    {"ndvi_anomaly", "rainfall_anomaly", "temp_anomaly",
     "ndvi_anomaly_lag1", "rainfall_anomaly_lag1", "temp_anomaly_lag1",
     "ndvi_anomaly_lag2", "rainfall_anomaly_lag2", "temp_anomaly_lag2"}

FullRow ==
    [ndvi_anomaly |-> Num(50), rainfall_anomaly |-> Num(30),
     food_price_inflation |-> Num(40), temp_anomaly |-> Num(0),
     ndvi_anomaly_lag1 |-> Num(40), rainfall_anomaly_lag1 |-> Num(10),
     food_price_inflation_lag1 |-> Num(20), temp_anomaly_lag1 |-> Num(0),
     ndvi_anomaly_lag2 |-> Num(30), rainfall_anomaly_lag2 |-> Num(20),
     food_price_inflation_lag2 |-> Num(10), temp_anomaly_lag2 |-> Num(5),
     month |-> MonthStrOf(12)]

OtherFullRow ==
    [ndvi_anomaly |-> Num(-120), rainfall_anomaly |-> Num(-80),
     food_price_inflation |-> Num(90), temp_anomaly |-> Num(60),
     ndvi_anomaly_lag1 |-> Num(-100), rainfall_anomaly_lag1 |-> Num(-60),
     food_price_inflation_lag1 |-> Num(70), temp_anomaly_lag1 |-> Num(50),
     ndvi_anomaly_lag2 |-> Num(-90), rainfall_anomaly_lag2 |-> Num(-50),
     food_price_inflation_lag2 |-> Num(60), temp_anomaly_lag2 |-> Num(40),
     month |-> MonthStrOf(7)]

\* test_predict.py's three-key mapping
TestRow ==
    [ndvi_anomaly |-> Num(50), rainfall_anomaly |-> Num(30),
     food_price_inflation |-> Num(40)]

\* only one current signal and the lag-1 signals
Lag1Row ==
    [ndvi_anomaly |-> Num(50), ndvi_anomaly_lag1 |-> Num(40),
     rainfall_anomaly_lag1 |-> Num(10), food_price_inflation_lag1 |-> Num(20),
     temp_anomaly_lag1 |-> Num(0)]

\* every key present, one anomaly given as the string "7.5"
StringRow == [FullRow EXCEPT !["ndvi_anomaly"] = Str(750)]

\* every key present, the month written "2024-12"
BadMonthRow == [FullRow EXCEPT !["month"] = Text]

FeatureInputs == {FullRow, OtherFullRow, TestRow, Lag1Row, StringRow, BadMonthRow}

\* what is at a model path: no file, a file joblib.load fails on, or a pickled
\* classifier fitted on 5 or on 18 features
VersionedFiles == {"absent", "corrupt", "m18"}
PlainFiles == {"absent", "m5"}

NFeaturesIn(file) == IF file = "m5" THEN 5 ELSE 18

RaisedWith(name) == [kind |-> "raised", value |-> name]

\* the load loop for one horizon: the first path that exists and loads
LoadHorizon(paths) ==
    LET ok == {i \in 1..Len(paths) : paths[i] \notin {"absent", "corrupt"}}
    IN  IF ok = {} THEN "none"
        ELSE paths[CHOOSE i \in ok : \A j \in ok : i <= j]

\* models after the module-level loop: horizon -> n_features_in_ of its classifier
LoadModels(files) ==
    [h \in {g \in DOMAIN files : LoadHorizon(files[g]) # "none"} |->
        NFeaturesIn(LoadHorizon(files[h]))]

\* float(value) succeeds
FloatOk(x) == x.k \in {"num", "str"}

\* datetime.strptime(value, '%Y/%m') raises TypeError for a value that is no string
ValidateRaises(features) ==
    "month" \in DOMAIN features /\ features["month"].k = "num"

\* validate_features: the list of error messages, as a set of (problem, feature)
ValidateFeatures(features) ==
    LET present == NUMERIC_FEATURES \cap DOMAIN features
    IN  {<<"missing", f>> : f \in REQUIRED_FEATURES \ DOMAIN features}
        \cup {<<"month_format", f>> :
                 f \in {g \in {"month"} \cap DOMAIN features : features[g].k # "month"}}
        \cup {<<"type", f>> : f \in {g \in present : ~FloatOk(features[g])}}
        \cup {<<"range", f>> :
                 f \in {g \in present \cap AnomalyFeatures :
                          /\ features[g].k = "num"
                          /\ ~(-500 <= features[g].v /\ features[g].v <= 500)}}

\* normalize_features: month as a string, everything else float(value) or 0.0
NormalizeFeatures(features) ==
    [f \in DOMAIN features |->
        IF f = "month" THEN features[f]
        ELSE IF FloatOk(features[f]) THEN Num(features[f].v)
        ELSE Num(0)]

\* raw_features.get(f, 0)
GetOr0(raw_features, f) ==
    IF f \in DOMAIN raw_features THEN raw_features[f].v ELSE 0

\* np.sin(2 * np.pi * month / 12) and np.cos(...), in hundredths
SinMonth(m) == <<50, 87, 100, 87, 50, 0, -50, -87, -100, -87, -50, 0>>[m]
CosMonth(m) == <<87, 50, 0, -50, -87, -100, -87, -50, 0, 50, 87, 100>>[m]

\* prepare_features with the month always read from the clock
PrepareFeatures_clock_month(raw_features, use_old_format, now) ==
    LET current_month == now
        g(f) == GetOr0(raw_features, f)
    IN  IF use_old_format
        THEN <<g("ndvi_anomaly_lag1"), g("rainfall_anomaly_lag1"),
               g("food_price_inflation_lag1"), g("temp_anomaly_lag1"),
               100 * current_month>>
        ELSE <<g("ndvi_anomaly"), g("rainfall_anomaly"), g("food_price_inflation"),
               g("temp_anomaly"),
               g("ndvi_anomaly_lag1"), g("rainfall_anomaly_lag1"),
               g("food_price_inflation_lag1"), g("temp_anomaly_lag1"),
               g("ndvi_anomaly_lag2"), g("rainfall_anomaly_lag2"),
               g("food_price_inflation_lag2"), g("temp_anomaly_lag2"),
               SinMonth(current_month), CosMonth(current_month),
               g("ndvi_anomaly") - g("ndvi_anomaly_lag1"),
               g("rainfall_anomaly") - g("rainfall_anomaly_lag1"),
               g("food_price_inflation") - g("food_price_inflation_lag1"),
               g("temp_anomaly") - g("temp_anomaly_lag1")>>

\* prepare_features(raw_features, use_old_format); now is datetime.now().month
PrepareFeatures(raw_features, use_old_format, now) ==
    LET current_month == IF "month" \in DOMAIN raw_features
                         THEN raw_features["month"].v ELSE now
        g(f) == GetOr0(raw_features, f)
    IN  IF use_old_format
        THEN <<g("ndvi_anomaly_lag1"), g("rainfall_anomaly_lag1"),
               g("food_price_inflation_lag1"), g("temp_anomaly_lag1"),
               100 * current_month>>
        ELSE <<g("ndvi_anomaly"), g("rainfall_anomaly"), g("food_price_inflation"),
               g("temp_anomaly"),
               g("ndvi_anomaly_lag1"), g("rainfall_anomaly_lag1"),
               g("food_price_inflation_lag1"), g("temp_anomaly_lag1"),
               g("ndvi_anomaly_lag2"), g("rainfall_anomaly_lag2"),
               g("food_price_inflation_lag2"), g("temp_anomaly_lag2"),
               SinMonth(current_month), CosMonth(current_month),
               g("ndvi_anomaly") - g("ndvi_anomaly_lag1"),
               g("rainfall_anomaly") - g("rainfall_anomaly_lag1"),
               g("food_price_inflation") - g("food_price_inflation_lag1"),
               g("temp_anomaly") - g("temp_anomaly_lag1")>>

\* the decision function of a fitted linear classifier: a weighted sum
RECURSIVE WeightedSum(_, _)
WeightedSum(a, i) ==
    IF i > Len(a) THEN 0 ELSE ((i % 3) + 1) * a[i] + WeightedSum(a, i + 1)

Clamp(x, lo, hi) == IF x < lo THEN lo ELSE IF x > hi THEN hi ELSE x

\* model.predict_proba(feature_array)[0][1] of the classifier fitted for horizon h
\* on n features: it raises when the array has another width; otherwise it is a
\* fixed function of the array with values in [0, 1], here in ten-thousandths
PredictProba(n, h, feature_array) ==
    IF Len(feature_array) # n THEN RaisedWith("ValueError")
    ELSE [kind |-> "float",
          value |-> Clamp(5000 + 137 * h + WeightedSum(feature_array, 1), 0, 10 * ProbScale)]

\* round(prob, 3): ten-thousandths to thousandths, a tie going to the even digit
Round3(x) ==
    LET q == x \div 10
        r == x % 10
    IN  IF r < 5 THEN q
        ELSE IF r > 5 THEN q + 1
        ELSE IF q % 2 = 0 THEN q ELSE q + 1

\* list(models.values())[0]: the dict is filled in the order 1, 2, 3
FirstModel(ms) == ms[CHOOSE h \in DOMAIN ms : \A g \in DOMAIN ms : h <= g]

UseOldFormat(ms) == DOMAIN ms # {} /\ FirstModel(ms) = 5

\* predict_risk answering for each of the horizons 1, 2, 3, loaded or not
PredictRisk_every_horizon(features, horizon, ms, now) ==
    IF ValidateRaises(features) THEN RaisedWith("TypeError")
    ELSE IF ValidateFeatures(features) # {} THEN RaisedWith("ValueError")
    ELSE
        LET normalized == NormalizeFeatures(features)
            feature_array == PrepareFeatures(normalized, UseOldFormat(ms), now)
            prob(h) == PredictProba(ms[h], h, feature_array)
        IN  IF horizon # NoHorizon /\ horizon \notin DOMAIN ms
            THEN [kind |-> "float", value |-> 500]
            ELSE IF horizon # NoHorizon
            THEN IF prob(horizon).kind = "raised" THEN prob(horizon)
                 ELSE [kind |-> "float", value |-> Round3(prob(horizon).value)]
            ELSE IF \E h \in DOMAIN ms : prob(h).kind = "raised"
            THEN RaisedWith("ValueError")
            ELSE [kind |-> "mapping",
                  value |-> [h \in {1, 2, 3} |->
                               IF h \in DOMAIN ms THEN Round3(prob(h).value) ELSE 500]]

\* predict_risk(features, horizon) with the module's models and the clock
PredictRisk(features, horizon, ms, now) ==
    IF ValidateRaises(features) THEN RaisedWith("TypeError")
    ELSE IF ValidateFeatures(features) # {} THEN RaisedWith("ValueError")
    ELSE
        LET normalized == NormalizeFeatures(features)
            feature_array == PrepareFeatures(normalized, UseOldFormat(ms), now)
            prob(h) == PredictProba(ms[h], h, feature_array)
        IN  IF horizon # NoHorizon /\ horizon \notin DOMAIN ms
            THEN [kind |-> "float", value |-> 500]
            ELSE IF horizon # NoHorizon
            THEN IF prob(horizon).kind = "raised" THEN prob(horizon)
                 ELSE [kind |-> "float", value |-> Round3(prob(horizon).value)]
            ELSE IF \E h \in DOMAIN ms : prob(h).kind = "raised"
            THEN RaisedWith("ValueError")
            ELSE [kind |-> "mapping",
                  value |-> [h \in DOMAIN ms |-> Round3(prob(h).value)]]

CallRecord(features, horizon) ==
    [features |-> features, horizon |-> horizon, at |-> nowMonth,
     result |-> PredictRisk(features, horizon, models, nowMonth)]

\* a call of predict_risk by a caller that made none before
PredictCall(features, horizon) ==
    /\ predCall' = [first |-> CallRecord(features, horizon),
                    last |-> CallRecord(features, horizon), n |-> 1]
    /\ UNCHANGED <<cacheVars, clockVars, thr, calls, histVars, appVars,
                   catCall, modelFiles, models, nowMonth, featuresDf, apiCall, auxVars>>

\* a further call of predict_risk; the caller's first call is kept beside it
PredictAgain(features, horizon) ==
    /\ predCall # NoneVal
    /\ predCall' = [first |-> predCall.first,
                    last |-> CallRecord(features, horizon),
                    n |-> IF predCall.n < CallCap THEN predCall.n + 1 ELSE CallCap]
    /\ UNCHANGED <<cacheVars, clockVars, thr, calls, histVars, appVars,
                   catCall, modelFiles, models, nowMonth, featuresDf, apiCall, auxVars>>

\* the calendar moves on to the next month
MonthPasses ==
    /\ nowMonth < MaxNowMonth
    /\ nowMonth' = nowMonth + 1
    /\ UNCHANGED <<cacheVars, clockVars, thr, calls, histVars, appVars,
                   catCall, modelFiles, models, predCall, featuresDf, apiCall, auxVars>>

\* import of predict.py: the load loop has run over the files found on disk
InitPredict ==
    /\ InitCommon
    /\ InitAuxIdle
    /\ ready = TRUE
    /\ maxsize = DEFAULT_MAXSIZE
    /\ catCall = NoneVal
    /\ modelFiles \in [DOMAIN HorizonList -> VersionedFiles \X PlainFiles]
    /\ models = LoadModels(modelFiles)
    /\ nowMonth = 1
    /\ predCall = NoneVal
    /\ featuresDf = <<>>
    /\ apiCall = NoneVal

NextPredict ==
    \/ \E features \in FeatureInputs, horizon \in HorizonInputs :
          PredictCall(features, horizon)
    \/ MonthPasses

SpecPredict == InitPredict /\ [][NextPredict]_vars

\* what the two paths of one horizon hold in the runs with repeated calls
RepeatFiles == {<<"absent", "absent">>, <<"corrupt", "m5">>, <<"m18", "absent">>}

RepeatInputs == {FullRow, OtherFullRow, TestRow, StringRow}

InitRepeat ==
    /\ InitCommon
    /\ InitAuxIdle
    /\ ready = TRUE
    /\ maxsize = DEFAULT_MAXSIZE
    /\ catCall = NoneVal
    /\ modelFiles \in [DOMAIN HorizonList -> RepeatFiles]
    /\ models = LoadModels(modelFiles)
    /\ nowMonth = 1
    /\ predCall = NoneVal
    /\ featuresDf = <<>>
    /\ apiCall = NoneVal

NextRepeat ==
    \/ \E features \in RepeatInputs, horizon \in HorizonInputs :
          predCall = NoneVal /\ PredictCall(features, horizon)
    \/ \E features \in RepeatInputs, horizon \in HorizonInputs :
          PredictAgain(features, horizon)
    \/ MonthPasses

SpecRepeat == InitRepeat /\ [][NextRepeat]_vars

PredictReturned == predCall # NoneVal

PartiallyPopulated(features) == REQUIRED_FEATURES \ DOMAIN features # {}

\* C14: predict_risk does not fail on a feature mapping that lacks some of the
\* feature keys; the missing keys count as 0.0 and a prediction is returned
Cex_C14 ==
    (PredictReturned /\ PartiallyPopulated(predCall.last.features)) =>
        predCall.last.result.kind # "raised"

\* C15: predict_risk never returns an empty mapping; with no model loaded the
\* all-horizons call returns the one fallback entry "1_month" -> 0.2
Cex_C15 ==
    (/\ PredictReturned
     /\ predCall.last.horizon = NoHorizon
     /\ predCall.last.result.kind = "mapping") =>
        LET value == predCall.last.result.value
        IN  /\ DOMAIN value # {}
            /\ DOMAIN models = {} =>
                  /\ Cardinality(DOMAIN value) = 1
                  /\ \A k \in DOMAIN value : k = "1_month" /\ value[k] = 200

PassesValidation(features) ==
    ~ValidateRaises(features) /\ ValidateFeatures(features) = {}

\* what the classifier of loaded horizon h answers in the call
ClassifierAnswer(call, h) ==
    PredictProba(models[h], h,
                 PrepareFeatures(NormalizeFeatures(call.features),
                                 UseOldFormat(models), call.at))

\* C16: in an all-horizons call a horizon whose classifier fails gets the
\* probability 0.0, the other loaded horizons get their computed probability,
\* and the call itself does not fail
Cex_C16 ==
    (/\ PredictReturned
     /\ predCall.last.horizon = NoHorizon
     /\ PassesValidation(predCall.last.features)) =>
        /\ predCall.last.result.kind = "mapping"
        /\ \A h \in DOMAIN models :
              /\ h \in DOMAIN predCall.last.result.value
              /\ predCall.last.result.value[h] =
                    IF ClassifierAnswer(predCall.last, h).kind = "raised" THEN 0
                    ELSE Round3(ClassifierAnswer(predCall.last, h).value)

\* the horizons for which a file at one of the two paths could be loaded
LoadedHorizons ==
    {h \in DOMAIN modelFiles :
        \E i \in 1..Len(modelFiles[h]) : modelFiles[h][i] \in {"m5", "m18"}}

\* C17: the keys of a returned mapping are exactly the horizons whose model
\* file was loaded at startup, a horizon whose file failed to load being
\* absent without removing the others, and every returned probability lies
\* in [0, 1]
Thm_C17 ==
    PredictReturned =>
        /\ predCall.last.result.kind = "mapping" =>
              /\ DOMAIN predCall.last.result.value = LoadedHorizons
              /\ \A h \in DOMAIN predCall.last.result.value :
                    predCall.last.result.value[h] \in 0..ProbScale
        /\ predCall.last.result.kind = "float" =>
              predCall.last.result.value \in 0..ProbScale

\* horizon 1 failed to load (corrupt versioned file, no plain file) and the
\* mapping holds the two other horizons
Wit_C17 ==
    /\ PredictReturned
    /\ modelFiles[1] = <<"corrupt", "absent">>
    /\ predCall.last.result.kind = "mapping"
    /\ DOMAIN predCall.last.result.value = {2, 3}

SameInput(a, b) == a.features = b.features /\ a.horizon = b.horizon

\* C18: two calls of predict_risk with the same features and horizon return
\* the same result, whatever was called in between and whenever they are made
Thm_C18 ==
    (PredictReturned /\ SameInput(predCall.first, predCall.last)) =>
        predCall.first.result = predCall.last.result

\* the same input a month later, after at least one other call, with
\* probabilities returned
Wit_C18 ==
    /\ PredictReturned
    /\ predCall.n = CallCap
    /\ SameInput(predCall.first, predCall.last)
    /\ predCall.first.at < predCall.last.at
    /\ predCall.last.result.kind = "mapping"
    /\ DOMAIN predCall.last.result.value # {}

\* ---------------------------------------------------------------------------
\* app.py: POST /api/predict
\* ---------------------------------------------------------------------------
JsonNull == "<null>"

\* a row of features_df: the feature columns beside region and risk_label
StoreRow(features) == features @@ [region |-> Text, risk_label |-> Num(0)]

\* a features.csv without a month column
NoMonthRow == [f \in NUMERIC_FEATURES |-> FullRow[f]]

\* the table load_features() returned: month by month rows of two regions,
\* the same from a file without month column, or no rows at all
StoreInputs ==
    { [Nairobi |-> <<StoreRow(OtherFullRow), StoreRow(FullRow)>>,
       Eldoret |-> <<StoreRow(FullRow)>>],
      [Nairobi |-> <<StoreRow(NoMonthRow)>>,
       Eldoret |-> <<StoreRow(NoMonthRow)>>],
      [r \in {} |-> <<>>] }

\* request bodies: not JSON, a JSON list, and JSON objects
BodyInputs ==
    { [json |-> "unparsable", fields |-> [k \in {} |-> ""]],
      [json |-> "list", fields |-> [k \in {} |-> ""]],
      [json |-> "object", fields |-> [k \in {} |-> ""]],
      [json |-> "object", fields |-> [horizon |-> "1"]],
      [json |-> "object", fields |-> [region |-> ""]],
      [json |-> "object", fields |-> [region |-> JsonNull]],
      [json |-> "object", fields |-> [region |-> "Nairobi"]],
      [json |-> "object", fields |-> [region |-> "Eldoret"]],
      [json |-> "object", fields |-> [region |-> "Atlantis"]] }

REGION_MAP ==
    [Eldoret |-> "Uasin Gishu", Thika |-> "Kiambu", Malindi |-> "Kilifi",
     Kitale |-> "Trans Nzoia"]

\* request.get_json(silent=True) or {}: a list with elements stays a list
JsonOrEmpty(body) ==
    IF body.json = "list" THEN body
    ELSE [json |-> "object",
          fields |-> IF body.json = "object" THEN body.fields ELSE [k \in {} |-> ""]]

\* data.get('region')
RegionOf(json) ==
    IF "region" \in DOMAIN json.fields THEN json.fields["region"] ELSE JsonNull

\* 'not region' with the empty string counted as a region
RegionMissing_only_null(region) == region = JsonNull

\* not region
RegionMissing(region) == region \in {JsonNull, ""}

\* the rows of a region that has none are the rows of the whole table
RegionRows_whole_table(df, region) ==
    IF region \in DOMAIN df THEN df[region]
    ELSE IF DOMAIN df = {} THEN <<>>
    ELSE df[CHOOSE r \in DOMAIN df : TRUE]

\* features_df[features_df['region'] == region]
RegionRows(df, region) == IF region \in DOMAIN df THEN df[region] ELSE <<>>

ApiResponse(status, error, payload, readStore, calledPredict) ==
    [status |-> status, error |-> error, data |-> payload,
     readStore |-> readStore, calledPredict |-> calledPredict]

\* the loop over probabilities.items()
PredictionsOf(probabilities) ==
    [h \in DOMAIN probabilities |->
        [probability |-> probabilities[h],
         category |-> CategorizeRisk(probabilities[h], h, NoneVal).label,
         color |-> CategorizeRisk(probabilities[h], h, NoneVal).color]]

\* predict(): the handler of POST /api/predict from the body to the response
ApiPredictResponse(body, df, ms, now) ==
    LET json == JsonOrEmpty(body)
        region == RegionOf(json)
        region_rows == RegionRows(df, region)
        latest == region_rows[Len(region_rows)]
        probabilities == PredictRisk(latest, NoHorizon, ms, now)
    IN  IF json.json = "list"
        THEN ApiResponse(500, <<"Internal Server Error">>, NoneVal, FALSE, FALSE)
        ELSE IF RegionMissing(region)
        THEN ApiResponse(400, <<"Region is required">>, NoneVal, FALSE, FALSE)
        ELSE IF region_rows = <<>>
        THEN ApiResponse(404, <<"Region not found in dataset: ", region>>, NoneVal,
                         TRUE, FALSE)
        ELSE IF probabilities.kind = "raised"
        THEN ApiResponse(500, <<"Prediction failed: ", probabilities.value>>, NoneVal,
                         TRUE, TRUE)
        ELSE ApiResponse(200, <<>>,
                         [region |-> region,
                          display_name |-> IF region \in DOMAIN REGION_MAP
                                           THEN REGION_MAP[region] ELSE region,
                          predictions |-> PredictionsOf(probabilities.value)],
                         TRUE, TRUE)

\* a POST /api/predict request, from its arrival to its response
ApiPredict(body) ==
    /\ apiCall' = [body |-> body, at |-> nowMonth,
                   response |-> ApiPredictResponse(body, featuresDf, models, nowMonth)]
    /\ UNCHANGED <<cacheVars, clockVars, thr, calls, histVars, appVars,
                   catCall, modelFiles, models, nowMonth, predCall, featuresDf, auxVars>>

\* the application after startup: models loaded, feature table read
InitApi ==
    /\ InitCommon
    /\ InitAuxIdle
    /\ ready = TRUE
    /\ maxsize = DEFAULT_MAXSIZE
    /\ catCall = NoneVal
    /\ modelFiles \in [DOMAIN HorizonList -> VersionedFiles \X PlainFiles]
    /\ models = LoadModels(modelFiles)
    /\ nowMonth = 1
    /\ predCall = NoneVal
    /\ featuresDf \in StoreInputs
    /\ apiCall = NoneVal

NextApi ==
    \/ \E body \in BodyInputs : ApiPredict(body)
    \/ MonthPasses

SpecApi == InitApi /\ [][NextApi]_vars

ApiResponded == apiCall # NoneVal

\* the request names a region, a non-empty string, that has no row in the table
UnknownRegionRequest ==
    /\ apiCall.body.json = "object"
    /\ "region" \in DOMAIN apiCall.body.fields
    /\ apiCall.body.fields["region"] \notin {"", JsonNull}
    /\ apiCall.body.fields["region"] \notin DOMAIN featuresDf

\* C19: a request naming a region without rows in the feature table is answered
\* 404 with an error that names the region, and predict_risk is not called
Thm_C19 ==
    (ApiResponded /\ UnknownRegionRequest) =>
        /\ apiCall.response.status = 404
        /\ \E i \in DOMAIN apiCall.response.error :
              apiCall.response.error[i] = apiCall.body.fields["region"]
        /\ ~apiCall.response.calledPredict

\* "Atlantis" asked of a table that has rows, of other regions only
Wit_C19 ==
    /\ ApiResponded
    /\ UnknownRegionRequest
    /\ DOMAIN featuresDf # {}
    /\ apiCall.body.fields["region"] = "Atlantis"
    /\ apiCall.response.status = 404

\* the body is unparsable, or a JSON object without a region or with an empty one
NoRegionRequest ==
    \/ apiCall.body.json = "unparsable"
    \/ /\ apiCall.body.json = "object"
       /\ \/ "region" \notin DOMAIN apiCall.body.fields
          \/ apiCall.body.fields["region"] \in {"", JsonNull}

\* C20: a request whose body carries no region (empty object, missing or empty
\* region, unparsable body) is answered 400, and neither the feature table
\* nor predict_risk is consulted
Thm_C20 ==
    (ApiResponded /\ NoRegionRequest) =>
        /\ apiCall.response.status = 400
        /\ ~apiCall.response.readStore
        /\ ~apiCall.response.calledPredict

\* an empty region string sent to a table that has rows
Wit_C20 ==
    /\ ApiResponded
    /\ apiCall.body.json = "object"
    /\ "region" \in DOMAIN apiCall.body.fields
    /\ apiCall.body.fields["region"] = ""
    /\ DOMAIN featuresDf # {}
    /\ apiCall.response.status = 400

\* the request names a region that has at least one row in the table
KnownRegionRequest ==
    /\ apiCall.body.json = "object"
    /\ "region" \in DOMAIN apiCall.body.fields
    /\ apiCall.body.fields["region"] \in DOMAIN featuresDf

\* C21: for a region with at least one row, /api/predict answers with a success
\* response holding region, display_name and one predictions entry per horizon
\* the predictor returned, each entry's category and color being those of
\* categorize_risk(probability, horizon)
Cex_C21 ==
    (ApiResponded /\ KnownRegionRequest) =>
        /\ apiCall.response.status = 200
        /\ apiCall.response.data.region = apiCall.body.fields["region"]
        /\ "display_name" \in DOMAIN apiCall.response.data
        /\ \A h \in DOMAIN apiCall.response.data.predictions :
              LET entry == apiCall.response.data.predictions[h]
              IN  /\ entry.category = CategorizeRisk(entry.probability, h, NoneVal).label
                  /\ entry.color = CategorizeRisk(entry.probability, h, NoneVal).color

\* ---------------------------------------------------------------------------
\* app.py: GET /api/ai/health, and readiness as the narrative endpoints see it
\* ---------------------------------------------------------------------------
\* startup: whether `from utils.llm_chain import ...` succeeded, whether the
\* google.generativeai package imports, whether GEMINI_API_KEY is set, whether
\* genai.configure and GenerativeModel(GEMINI_MODEL) go through
AdvisorEnvs ==
    [loaded : BOOLEAN, has_pkg : BOOLEAN, has_key : BOOLEAN, init_ok : BOOLEAN]

\* gemini_ready(): the one of llm_chain, or the stub app.py defines when the
\* import of llm_chain failed
GeminiReady(env) ==
    IF env.loaded
    THEN IF ~env.has_pkg
         THEN [ok |-> FALSE, reason |-> "google-generativeai package not installed"]
         ELSE IF ~env.has_key
         THEN [ok |-> FALSE, reason |-> "GEMINI_API_KEY missing"]
         ELSE IF env.init_ok THEN [ok |-> TRUE, reason |-> "ok"]
         ELSE [ok |-> FALSE, reason |-> "Gemini init failed"]
    ELSE IF ~env.has_pkg
         THEN [ok |-> FALSE, reason |-> "google-generativeai package not installed"]
         ELSE IF ~env.has_key
         THEN [ok |-> FALSE, reason |-> "GEMINI_API_KEY missing"]
         ELSE [ok |-> FALSE, reason |-> "llm_chain import failed (see server logs)"]

\* ai_health(): the JSON body and the status
HealthResponse(env) ==
    [status |-> IF GeminiReady(env).ok THEN 200 ELSE 503,
     body |-> [gemini_ready |-> GeminiReady(env).ok,
               reason |-> GeminiReady(env).reason,
               advisor_loaded |-> env.loaded]]

\* a GET /api/ai/health request
Health ==
    /\ healthCall' = HealthResponse(advisor)
    /\ UNCHANGED <<cacheVars, clockVars, thr, calls, histVars, appVars, riskVars,
                   advisor, factsCall, forecastRun>>

\* the application after startup, the narrative subsystem ready or not
InitHealth ==
    /\ InitCommon
    /\ InitRiskIdle
    /\ maxsize = DEFAULT_MAXSIZE
    /\ advisor \in AdvisorEnvs
    /\ ready = GeminiReady(advisor).ok
    /\ healthCall = NoneVal
    /\ factsCall = NoneVal
    /\ forecastRun = NoneVal

NextHealth ==
    \/ Health
    \/ \E h \in Handlers, mode \in Modes, force \in BOOLEAN :
          BeginRequest(h, mode, "Nairobi", NoParam, force)
    \/ \E h \in Handlers : Generate(h, "ok", "text1")
    \/ \E h \in Handlers : Store(h)

SpecHealth == InitHealth /\ [][NextHealth]_vars

HealthAnswered == healthCall # NoneVal

\* the status of a health response is 200 exactly when the subsystem is ready,
\* and a narrative request answered while it is not ready gets 503
HealthStatusMatchesReadiness ==
    HealthAnswered =>
        /\ healthCall.status = (IF ready THEN 200 ELSE 503)
        /\ healthCall.status = 503 =>
              \A h \in Handlers : req[h].pc = "done" => req[h].status = 503

\* C22: /api/ai/health answers 200 exactly when the narrative subsystem is
\* ready and 503 otherwise, its body carries the fields ready, reason and
\* advisor_loaded, and while health reports not-ready /api/explain and
\* /api/brief answer 503
Cex_C22 ==
    HealthAnswered =>
        /\ HealthStatusMatchesReadiness
        /\ {"ready", "reason", "advisor_loaded"} \subseteq DOMAIN healthCall.body
        /\ healthCall.body["ready"] = ready

\* ---------------------------------------------------------------------------
\* SimpleCache: the size bound
\* ---------------------------------------------------------------------------
CacheEntries == Cardinality(DOMAIN data)

\* thread t runs the body of a set of a new key while the cache, its expired
\* entries left aside, holds maxsize entries
SetOnFullCache(t) ==
    /\ thr[t].pc = "locked" /\ thr[t].op = "set"
    /\ thr'[t].pc = "ret"
    /\ thr[t].key \notin DOMAIN Expire(data, links, Now).data
    /\ Cardinality(DOMAIN Expire(data, links, Now).data) = maxsize

\* the entries after the set: the live ones without the first key of the
\* links (the least recently used), and the new key
EvictedFirstLink(t) ==
    DOMAIN data' =
        (DOMAIN Expire(data, links, Now).data \ {Head(Expire(data, links, Now).links)})
            \cup {thr[t].key}

\* C23: the cache never holds more entries than its maximum entry count, and a
\* set of a new key on a full cache evicts the least recently used entry
\* instead of growing
Thm_C23 ==
    /\ [](CacheEntries <= maxsize)
    /\ [][\A t \in Threads : SetOnFullCache(t) => EvictedFirstLink(t)]_vars

\* a set has just replaced the unexpired entry of the other key in a cache of
\* one entry
Wit_C23 ==
    /\ maxsize = SmallMaxsize
    /\ \E t \in Threads :
          /\ thr[t].pc = "ret" /\ thr[t].op = "set"
          /\ thr[t].prev.op = "set"
          /\ thr[t].prev.key # thr[t].key
          /\ thr[t].prev.at = thr[t].at
          /\ DOMAIN data = {thr[t].key}

\* ---------------------------------------------------------------------------
\* data_loader.py load_features and app.py collect_region_facts
\* ---------------------------------------------------------------------------
\* an empty cell of features.csv, read by pandas as NaN
NaN == [k |-> "nan", v |-> 0]

\* features.csv, by region: complete rows; the latest row of the region with an
\* empty lag-1 vegetation cell; with an empty price cell; a file without the
\* lag-1 vegetation column; a file without the month column
CsvInputs ==
    { [Nairobi |-> <<StoreRow(OtherFullRow), StoreRow(FullRow)>>],
      [Nairobi |-> <<StoreRow(OtherFullRow),
                     StoreRow([FullRow EXCEPT !["ndvi_anomaly_lag1"] = NaN])>>],
      [Nairobi |-> <<StoreRow(OtherFullRow),
                     StoreRow([FullRow EXCEPT !["food_price_inflation"] = NaN])>>],
      [Nairobi |-> <<StoreRow([f \in DOMAIN FullRow \ {"ndvi_anomaly_lag1"} |->
                                  FullRow[f]])>>],
      [Nairobi |-> <<StoreRow(NoMonthRow)>>] }

\* df.fillna(0) on one row
FillNa(row) == [f \in DOMAIN row |-> IF row[f] = NaN THEN Num(0) ELSE row[f]]

\* load_features(): read_csv, then fillna(0)
LoadFeatures(csv) ==
    [r \in DOMAIN csv |-> [i \in DOMAIN csv[r] |-> FillNa(csv[r][i])]]

\* latest.get(column, None)
SeriesGet(latest, column) ==
    IF column \in DOMAIN latest THEN latest[column] ELSE NoneVal

NoFields == [f \in {} |-> NoneVal]

\* one of the two try blocks: the difference when neither value is None, None
\* when float() raises, no field otherwise
DeltaField(latest, name, current, lagged) ==
    IF SeriesGet(latest, lagged) # NoneVal /\ SeriesGet(latest, current) # NoneVal
    THEN IF FloatOk(latest[current]) /\ FloatOk(latest[lagged])
         THEN [f \in {name} |-> latest[current].v - latest[lagged].v]
         ELSE [f \in {name} |-> NoneVal]
    ELSE NoFields

\* collect_region_facts(region, horizon)
CollectRegionFacts(df, region, horizon, ms, now) ==
    LET region_rows == RegionRows(df, region)
        latest == region_rows[Len(region_rows)]
        probabilities == PredictRisk(latest, NoHorizon, ms, now)
        prob == IF horizon \in DOMAIN probabilities.value
                THEN probabilities.value[horizon] ELSE 0
    IN  IF region_rows = <<>> THEN [raised |-> TRUE, facts |-> NoneVal]
        ELSE IF probabilities.kind = "raised" THEN [raised |-> TRUE, facts |-> NoneVal]
        ELSE [raised |-> FALSE,
              facts |->
                 [prob |-> prob,
                  risk_tier |-> CategorizeRisk(prob, horizon, NoneVal).label,
                  ndvi_anomaly |-> SeriesGet(latest, "ndvi_anomaly"),
                  spi1 |-> NoneVal,
                  spi3 |-> NoneVal,
                  price_yoy |-> SeriesGet(latest, "food_price_inflation")]
                 @@ DeltaField(latest, "delta_ndvi", "ndvi_anomaly", "ndvi_anomaly_lag1")
                 @@ DeltaField(latest, "delta_price", "food_price_inflation",
                               "food_price_inflation_lag1")]

\* a call of collect_region_facts
CollectFacts(region, horizon) ==
    /\ factsCall' = [csv |-> factsCall.csv, region |-> region, horizon |-> horizon,
                     result |-> CollectRegionFacts(featuresDf, region, horizon,
                                                   models, nowMonth)]
    /\ UNCHANGED <<cacheVars, clockVars, thr, calls, histVars, appVars, riskVars,
                   advisor, healthCall, forecastRun>>

\* startup: the models are loaded and features.csv is read
InitFacts ==
    /\ InitCommon
    /\ ready = TRUE
    /\ maxsize = DEFAULT_MAXSIZE
    /\ catCall = NoneVal
    /\ modelFiles \in [DOMAIN HorizonList -> RepeatFiles]
    /\ models = LoadModels(modelFiles)
    /\ nowMonth = 1
    /\ predCall = NoneVal
    /\ \E csv \in CsvInputs :
          /\ featuresDf = LoadFeatures(csv)
          /\ factsCall = [csv |-> csv, region |-> "none", horizon |-> NoHorizon,
                          result |-> NoneVal]
    /\ apiCall = NoneVal
    /\ advisor = NoneVal
    /\ healthCall = NoneVal
    /\ forecastRun = NoneVal

NextFacts ==
    \E region \in RegionInputs, horizon \in ValidHorizons : CollectFacts(region, horizon)

SpecFacts == InitFacts /\ [][NextFacts]_vars

FactsReturned ==
    /\ factsCall # NoneVal
    /\ factsCall.result # NoneVal
    /\ ~factsCall.result.raised

\* the cell of the region's latest row in features.csv holds a value
PresentInCsv(column) ==
    LET rows == factsCall.csv[factsCall.region]
    IN  /\ column \in DOMAIN rows[Len(rows)]
        /\ rows[Len(rows)][column] # NaN

TrendIsDifferenceOrAbsent(name, current, lagged) ==
    LET rows == factsCall.csv[factsCall.region]
        facts == factsCall.result.facts
    IN  IF PresentInCsv(current) /\ PresentInCsv(lagged)
        THEN /\ name \in DOMAIN facts
             /\ facts[name] = rows[Len(rows)][current].v - rows[Len(rows)][lagged].v
        ELSE name \notin DOMAIN facts

\* C24: in the facts of a region delta_ndvi and delta_price are the current
\* value minus the lag-1 value when the region's data has both, and the field
\* is absent from the facts when one of the two is missing from the data
Cex_C24 ==
    FactsReturned =>
        /\ TrendIsDifferenceOrAbsent("delta_ndvi", "ndvi_anomaly", "ndvi_anomaly_lag1")
        /\ TrendIsDifferenceOrAbsent("delta_price", "food_price_inflation",
                                     "food_price_inflation_lag1")

\* with both inputs present the trend is the first difference
TrendOfPresentInputs ==
    FactsReturned =>
        /\ (PresentInCsv("ndvi_anomaly") /\ PresentInCsv("ndvi_anomaly_lag1")) =>
              TrendIsDifferenceOrAbsent("delta_ndvi", "ndvi_anomaly", "ndvi_anomaly_lag1")
        /\ (PresentInCsv("food_price_inflation")
              /\ PresentInCsv("food_price_inflation_lag1")) =>
              TrendIsDifferenceOrAbsent("delta_price", "food_price_inflation",
                                        "food_price_inflation_lag1")

\* ---------------------------------------------------------------------------
\* The narrative handlers with the cache lock's acquire and release as steps
\* of their own: a worker thread runs one request and is the lock's holder
\* while it is inside SimpleCache.get or SimpleCache.set
\* ---------------------------------------------------------------------------

LockAfterWith_kept(t) == t

\* leaving `with self._lock:` releases the lock
LockAfterWith(t) == NoThread

\* explain_region / brief_region up to the call of ai_cache.get
EnterRequest(h, mode, region, force) ==
    /\ req[h].pc \in {"idle", "done"}
    /\ \A g \in 1..(h - 1) : req[g].pc \notin {"idle", "done"}
    /\ served < MaxRequests
    /\ served' = served + 1
    /\ LET r0 == [IdleRequest EXCEPT !.mode = mode, !.region = region, !.force = force]
           k == <<region, MonthStr, IntOf(ArgH(NoParam)), mode>>
           r1 == [r0 EXCEPT !.key = k,
                     !.expect = IF /\ ~force
                                   /\ lastStore[k] # NoneVal
                                   /\ Now < lastStore[k].at + DEFAULT_TTL
                                THEN lastStore[k].body ELSE NoneVal]
       IN  req' = [req EXCEPT ![h] =
                      IF ~ready THEN Respond(r0, 503, FALSE, NoneVal)
                      ELSE IF ConsultCache(force) THEN [r1 EXCEPT !.pc = "get_wait"]
                      ELSE [r1 EXCEPT !.pc = "generating"]]
    /\ UNCHANGED <<cacheVars, clockVars, thr, calls, histVars, ready, lastStore, riskVars, auxVars>>

\* SimpleCache.get: `with self._lock:` is entered
GetEnter(h) ==
    /\ req[h].pc = "get_wait"
    /\ LockFree(h)
    /\ lock' = h
    /\ req' = [req EXCEPT ![h].pc = "get_locked"]
    /\ UNCHANGED <<data, links, maxsize, clockVars, thr, calls, histVars, ready, served, lastStore, riskVars, auxVars>>

\* SimpleCache.get returns, and the handler answers a hit or goes on to the
\* generator
GetReturn(h) ==
    /\ req[h].pc = "get_locked"
    /\ LET g == SimpleCacheGet(data, links, req[h].key, Now)
           r2 == [req[h] EXCEPT !.readCache = TRUE]
       IN  /\ links' = g.links
           /\ req' = [req EXCEPT ![h] =
                         IF Truthy(g.ret)
                         THEN Respond(r2, 200, TRUE, g.ret)
                         ELSE [r2 EXCEPT !.pc = "generating"]]
    /\ lock' = LockAfterWith(h)
    /\ UNCHANGED <<data, maxsize, clockVars, thr, calls, histVars, ready, served, lastStore, riskVars, auxVars>>

\* SimpleCache.set: `with self._lock:` is entered
SetEnter(h) ==
    /\ req[h].pc = "storing"
    /\ LockFree(h)
    /\ lock' = h
    /\ req' = [req EXCEPT ![h].pc = "set_locked"]
    /\ UNCHANGED <<data, links, maxsize, clockVars, thr, calls, histVars, ready, served, lastStore, riskVars, auxVars>>

\* SimpleCache.set returns, then the 200 response
SetReturn(h) ==
    /\ req[h].pc = "set_locked"
    /\ LET k == req[h].key
           s == SimpleCacheSet(data, links, k, req[h].result, DEFAULT_TTL, Now, maxsize)
           result == SetValue(req[h].result, DEFAULT_TTL)
           r1 == [req[h] EXCEPT !.result = result, !.wrote = TRUE,
                     !.replaced = IF k \in DOMAIN data THEN data[k].value ELSE NoneVal]
       IN  /\ data' = s.data
           /\ links' = s.links
           /\ req' = [req EXCEPT ![h] = Respond(r1, 200, FALSE, result)]
           /\ lastStore' = [lastStore EXCEPT ![k] =
                               [body |-> result, at |-> Now, llm |-> req[h].llm]]
    /\ lock' = LockAfterWith(h)
    /\ UNCHANGED <<maxsize, clockVars, thr, calls, histVars, ready, served, riskVars, auxVars>>

NextLock ==
    \/ \E h \in Handlers, mode \in Modes, region \in RegionInputs, force \in BOOLEAN :
          EnterRequest(h, mode, region, force)
    \/ \E h \in Handlers : GetEnter(h)
    \/ \E h \in Handlers : GetReturn(h)
    \/ \E h \in Handlers, outcome \in LlmOutcomes, text \in LlmTexts :
          Generate(h, outcome, text)
    \/ \E h \in Handlers : SetEnter(h)
    \/ \E h \in Handlers : SetReturn(h)

SpecLock == Init /\ [][NextLock]_vars

\* the request's handler is inside collect_region_facts / get_explanation /
\* get_brief
GeneratorPending(h) == req[h].pc = "generating"

\* C25: the cache lock is never held by a request whose generator call is in
\* progress (its holder is always inside SimpleCache.get or SimpleCache.set,
\* so a pending generator call blocks no other request's get or set); a
\* request writes to the cache only after its generator call returned a
\* payload, and a request whose generator call is pending, or that ended
\* without a payload, has written nothing
Thm_C25 ==
    /\ lock # NoThread => req[lock].pc \in {"get_locked", "set_locked"}
    /\ \A h \in Handlers :
          /\ GeneratorPending(h) => (lock # h /\ ~req[h].wrote)
          /\ req[h].pc = "set_locked" => (req[h].genCalled /\ req[h].result # NoneVal)
          /\ req[h].wrote =>
                /\ req[h].genCalled
                /\ req[h].result # NoneVal
                /\ Done(h) /\ req[h].status = 200
          /\ (Done(h) /\ req[h].status # 200) => ~req[h].wrote

\* one request is inside SimpleCache.set, holding the lock, while another
\* request's generator call is pending
Wit_C25 ==
    \E h \in Handlers, g \in Handlers :
        /\ h # g
        /\ GeneratorPending(h)
        /\ req[g].pc = "set_locked"
        /\ lock = g
        /\ req[g].genCalled

\* a write of the cache map is the ai_cache.set of a request whose generator
\* call returned the payload that is stored
EntersThroughGenerator ==
    \A k \in CacheKeys :
        (k \in DOMAIN data' /\ (k \notin DOMAIN data \/ data'[k] # data[k])) =>
            \E h \in Handlers :
                /\ req[h].pc = "storing"
                /\ req[h].key = k
                /\ req[h].genCalled
                /\ req'[h].wrote
                /\ data'[k].value = req'[h].body

\* the request looked its key up and the cache held no live entry for it
LookupMissed(h) == req[h].readCache /\ req[h].expect = NoneVal

\* C26: in a narrative request without force get_explanation / get_brief is
\* called only after ai_cache.get for the request's key returned nothing, a
\* request answered from the cache never called it, and every entry that
\* enters the cache is written by a request whose generator call returned it
Thm_C26 ==
    /\ [](\A h \in Handlers :
             /\ (~req[h].force /\ req[h].genCalled) => LookupMissed(h)
             /\ (~req[h].force /\ GeneratorPending(h)) => LookupMissed(h)
             /\ req[h].cached => ~req[h].genCalled)
    /\ [][EntersThroughGenerator]_vars

\* a request without force was answered from the cache without a generator
\* call, and another one missed and called the generator
Wit_C26 ==
    \E h \in Handlers, g \in Handlers :
        /\ Done(h) /\ ~req[h].force /\ req[h].cached /\ ~req[h].genCalled
        /\ ~req[g].force /\ req[g].genCalled /\ LookupMissed(g)

\* C27: the data of a narrative response answered 200, uncached or cached,
\* has exactly the fields the Narrative Generator returned: ai_cache.set added
\* no bookkeeping field to the payload
Cex_C27 ==
    \A h \in Handlers :
        (Done(h) /\ req[h].status = 200) =>
            /\ "_ttl" \notin DOMAIN req[h].body
            /\ \E outcome \in LlmOutcomes, text \in LlmTexts :
                  req[h].body = GetNarrative(req[h].mode, TRUE, outcome, text).value

\* C28: when predict_risk got past validate_features, every *_anomaly value
\* of the normalized features it builds the feature vector from lies in
\* [-5, 5], for numbers and for numeric strings alike
Cex_C28 ==
    (PredictReturned /\ PassesValidation(predCall.last.features)) =>
        LET normalized == NormalizeFeatures(predCall.last.features)
        IN  \A f \in AnomalyFeatures \cap DOMAIN normalized :
                -500 <= normalized[f].v /\ normalized[f].v <= 500

\* the horizons whose model the call hands the feature vector to
HorizonsAsked(call) ==
    IF call.horizon = NoHorizon THEN DOMAIN models
    ELSE {call.horizon} \cap DOMAIN models

\* C29: whatever mix of 5-feature and 18-feature models was loaded, the
\* feature vector predict_risk passes to a horizon's model has the number of
\* features that model was trained on
Cex_C29 ==
    (PredictReturned /\ PassesValidation(predCall.last.features)) =>
        \A h \in HorizonsAsked(predCall.last) :
            Len(PrepareFeatures(NormalizeFeatures(predCall.last.features),
                                UseOldFormat(models), predCall.last.at)) = models[h]

\* with models of one format only the vector has the model's length
SameFormatFits ==
    (/\ PredictReturned
     /\ PassesValidation(predCall.last.features)
     /\ \A h \in DOMAIN models : models[h] = FirstModel(models)) =>
        \A h \in HorizonsAsked(predCall.last) :
            Len(PrepareFeatures(NormalizeFeatures(predCall.last.features),
                                UseOldFormat(models), predCall.last.at)) = models[h]

\* ---------------------------------------------------------------------------
\* train_pipeline.generate_forecasts
\* ---------------------------------------------------------------------------

\* the feature columns of the training frame
ForecastFeatures == <<"ndvi_anomaly", "rainfall_anomaly">>

ForecastRow(region, date, ndvi, rain) ==
    [region |-> region, date |-> date, ndvi_anomaly |-> ndvi, rainfall_anomaly |-> rain]

\* df: rows in file order, several months per region, cells possibly empty
ForecastFrames ==
    {<<>>,
     <<ForecastRow("Nairobi", 1, Num(100), Num(-50)),
       ForecastRow("Nairobi", 2, Num(200), NaN),
       ForecastRow("Turkana", 2, Num(500), Num(300))>>,
     <<ForecastRow("Turkana", 1, Num(0), Num(0)),
       ForecastRow("Nairobi", 1, Num(-1000), Num(0)),
       ForecastRow("Turkana", 2, Num(500), Num(300))>>,
     <<ForecastRow("Nairobi", 1, Num(200), Num(100))>>}

\* models: the horizons a model was trained for, each on the frame's features
ForecastModels == UNION {[S -> {Len(ForecastFeatures)}] : S \in SUBSET ValidHorizons}

\* config: targets.horizons and the thresholds section, absent or configured
\* for horizon 1
ForecastConfigs ==
    [horizons : {<<1, 2, 3>>, <<1, 2>>, <<2, 1>>, <<3>>},
     thresholds : {[h \in {} |-> NoneVal],
                   [h \in {1} |-> [red |-> 9000, yellow |-> 1000]]}]

RECURSIVE LatestFrom(_, _)
\* df.groupby(id_col).tail(1): the last row of every region, in file order
LatestFrom(df, i) ==
    IF i > Len(df) THEN <<>>
    ELSE IF \E j \in (i + 1)..Len(df) : df[j].region = df[i].region
    THEN LatestFrom(df, i + 1)
    ELSE <<df[i]>> \o LatestFrom(df, i + 1)

\* row[features].fillna(0).values
ForecastX(row) ==
    [c \in 1..Len(ForecastFeatures) |-> FillNa(row)[ForecastFeatures[c]].v]

\* the locals prob, prob_lo, prob_hi and risk_level before their first
\* assignment
UnboundLocals ==
    [bound |-> FALSE, prob |-> 0, prob_lo |-> 0, prob_hi |-> 0, risk_level |-> "none"]

\* the body of `if h in models:` for one row and horizon
ForecastLocals(row, h, ms, config) ==
    LET prob == PredictProba(ms[h], h, ForecastX(row)).value
        red_thresh == IF h \in DOMAIN config.thresholds
                      THEN config.thresholds[h].red ELSE 6000
        yellow_thresh == IF h \in DOMAIN config.thresholds
                         THEN config.thresholds[h].yellow ELSE 3500
    IN  [bound |-> TRUE,
         prob |-> prob,
         prob_lo |-> IF prob - 1000 < 0 THEN 0 ELSE prob - 1000,
         prob_hi |-> IF prob + 1000 > 10 * ProbScale THEN 10 * ProbScale ELSE prob + 1000,
         risk_level |-> IF prob >= red_thresh THEN "High"
                        ELSE IF prob >= yellow_thresh THEN "Moderate"
                        ELSE "Low"]

\* the dict forecasts.append is given
ForecastEntry(row, h, loc) ==
    [region |-> row.region, date_current |-> row.date, horizon |-> h,
     prob |-> loc.prob, prob_lo |-> loc.prob_lo, prob_hi |-> loc.prob_hi,
     risk_level |-> loc.risk_level]

RECURSIVE ForecastLoop(_, _, _, _, _, _, _)
\* the two nested loops from row i and horizon j on; the locals keep their
\* values from one iteration to the next, and reading an unassigned local
\* raises UnboundLocalError
ForecastLoop(latest, i, j, loc, out, ms, config) ==
    IF i > Len(latest) THEN [raised |-> FALSE, rows |-> out]
    ELSE IF j > Len(config.horizons)
    THEN ForecastLoop(latest, i + 1, 1, loc, out, ms, config)
    ELSE LET h == config.horizons[j]
             loc1 == IF h \in DOMAIN ms
                     THEN ForecastLocals(latest[i], h, ms, config) ELSE loc
         IN  IF ~loc1.bound THEN [raised |-> TRUE, rows |-> <<>>]
             ELSE ForecastLoop(latest, i, j + 1, loc1,
                               Append(out, ForecastEntry(latest[i], h, loc1)), ms, config)

GenerateForecasts(df, ms, config) ==
    ForecastLoop(LatestFrom(df, 1), 1, 1, UnboundLocals, <<>>, ms, config)

\* one run of generate_forecasts
RunForecasts ==
    /\ forecastRun # NoneVal
    /\ forecastRun.result = NoneVal
    /\ forecastRun' = [forecastRun EXCEPT !.result =
                          GenerateForecasts(forecastRun.df, forecastRun.ms,
                                            forecastRun.config)]
    /\ UNCHANGED <<cacheVars, clockVars, thr, calls, histVars, appVars, riskVars,
                   advisor, healthCall, factsCall>>

InitForecast ==
    /\ InitCommon
    /\ InitRiskIdle
    /\ ready = TRUE
    /\ maxsize = DEFAULT_MAXSIZE
    /\ advisor = NoneVal
    /\ healthCall = NoneVal
    /\ factsCall = NoneVal
    /\ \E df \in ForecastFrames, ms \in ForecastModels, config \in ForecastConfigs :
          forecastRun = [df |-> df, ms |-> ms, config |-> config, result |-> NoneVal]

NextForecast == RunForecasts

SpecForecast == InitForecast /\ [][NextForecast]_vars

ForecastsReturned ==
    /\ forecastRun # NoneVal
    /\ forecastRun.result # NoneVal
    /\ ~forecastRun.result.raised

\* the (row, horizon) pairs of the latest rows and the configured horizons
\* that have a model
ForecastPairs ==
    LET latest == LatestFrom(forecastRun.df, 1)
    IN  {<<i, h>> \in (1..Len(latest)) \X ValidHorizons :
            /\ h \in DOMAIN forecastRun.ms
            /\ \E j \in 1..Len(forecastRun.config.horizons) :
                  forecastRun.config.horizons[j] = h}

\* the row emitted for the region of latest row i and horizon h is the one
\* computed from that row and horizon
OwnForecast(r, i, h) ==
    LET latest == LatestFrom(forecastRun.df, 1)
    IN  r = ForecastEntry(latest[i], h,
                          ForecastLocals(latest[i], h, forecastRun.ms, forecastRun.config))

\* C30: generate_forecasts emits exactly one row per (region, horizon) with a
\* trained model and none for a configured horizon without a model, and the
\* prob and risk_level of every row are those of the row's own region and
\* horizon
Cex_C30 ==
    ForecastsReturned =>
        LET rows == forecastRun.result.rows
        IN  /\ \A p \in ForecastPairs :
                  Cardinality({n \in 1..Len(rows) : OwnForecast(rows[n], p[1], p[2])}) = 1
            /\ \A n \in 1..Len(rows) :
                  \E p \in ForecastPairs : OwnForecast(rows[n], p[1], p[2])

\* a run returns whenever every configured horizon has a model, and then it
\* emits one own row per region and horizon
AllModelsForecast ==
    (/\ forecastRun # NoneVal
     /\ forecastRun.result # NoneVal
     /\ \A j \in 1..Len(forecastRun.config.horizons) :
           forecastRun.config.horizons[j] \in DOMAIN forecastRun.ms) =>
        /\ ~forecastRun.result.raised
        /\ Len(forecastRun.result.rows) = Cardinality(ForecastPairs)
        /\ \A p \in ForecastPairs :
              \E n \in 1..Len(forecastRun.result.rows) :
                  OwnForecast(forecastRun.result.rows[n], p[1], p[2])

====
